---- MODULE Spec2Model ----
(***************************************************************************)
(* Claudex v2 hologram sidecar (src/sidecar/server.py): the session        *)
(* registry and its per-key locks, the project scanner and its caches,     *)
(* the query pipeline, the request router and the connection handler, as   *)
(* one state machine.                                                      *)
(*                                                                         *)
(* The server runs on one asyncio event loop: code between two suspension  *)
(* points runs atomically.  The suspension points of a connection are the  *)
(* read of the request line, the wait for a held lock, the two engine      *)
(* calls handed to a worker thread (turn, save) and the drain of the       *)
(* writer.  Each action below is one such atomic stretch of a connection   *)
(* task.                                                                   *)
(***************************************************************************)
EXTENDS Integers, Sequences, FiniteSets, TLC

(***************************************************************************)
(* Bounds of the model.                                                    *)
(***************************************************************************)
NumTasks == 3
NumScanRoots == 11
MaxRescans == 2
MaxGets == 6

(***************************************************************************)
(* Program constants.                                                      *)
(***************************************************************************)
MAX_CACHED_SESSIONS == 3
MAX_CACHE_PROJECTS == 10
DEFAULT_MAX_FILES == 200
\* raw_pressure is a float in the code; the model keeps it in hundredths.
BOOTSTRAP_PRESSURE == 45
BOOTSTRAP_BUCKET == 22
BOOST_PRESSURE == 60
BOOST_BUCKET == 30

VARIABLES
    session_cache,  \* _session_cache: OrderedDict, oldest first: Seq([k: key, v: handle])
    session_locks,  \* _session_locks: key -> lock object (NoLock: no entry)
    locks,          \* the asyncio.Lock objects: [locked, waiters]
    sessions,       \* the engine sessions' file tables: handle -> (logical key -> record)
    mtime_cache,    \* _mtime_cache: dict in insertion order: Seq([k: root, v: map])
    content_cache,  \* _content_cache: dict in insertion order: Seq([k: root, v: map])
    fs,             \* the file system: root -> (file name -> [mtime, content])
    task,           \* the connection tasks
    server,         \* SidecarServer: [listening, shutdown_set]
    lru_touch,      \* history: session keys by last touch (hit or insert), oldest first
    scan_touch,     \* history: project roots by last completed scan, oldest first
    rescans,        \* history: number of re-scans of a root already scanned
    get_log,        \* history: the last direct call of _get_session and its result
    call            \* history: the last direct call of another function: [op, ...]

vars == <<session_cache, session_locks, locks, sessions, mtime_cache,
          content_cache, fs, task, server, lru_touch, scan_touch, rescans,
          get_log, call>>

Tasks == 1..NumTasks

(***************************************************************************)
(* Paths.  _canonical_dir is realpath(expanduser(path)); the model's       *)
(* paths are the spellings below, two of them aliases of another one.      *)
(***************************************************************************)
DEFAULT_CLAUDE_DIR == "~/.claude"

ScanRoot(i) == "/r" \o ToString(i)

_canonical_dir(path) ==
    CASE path = "" -> ""
      [] path = "~/.claude" -> "/home/u/.claude"
      [] path = "/p1/" -> "/p1"
      [] OTHER -> path

_cache_key(claude_dir, project_dir) ==
    <<_canonical_dir(claude_dir), _canonical_dir(project_dir)>>

ClaudeDirs == {"/home/u/.claude", "/c2"}
ProjectDirs == {"", "/p1"}
AllKeys == ClaudeDirs \X ProjectDirs
NoKey == <<"", "">>

ScanRoots == {ScanRoot(i) : i \in 1..NumScanRoots}
AllRoots == {"/p1"} \cup ScanRoots

(***************************************************************************)
(* Files.  A logical key is "project:" + the relative path.                *)
(***************************************************************************)
FileNames == {"a.md", "b.md"}
WalkOrder == <<"a.md", "b.md">>
LKey(rel_file) == "project:" \o rel_file
LKeys == {LKey(f) : f \in FileNames}
Contents == {"c1", "c2"}

EmptyMap == <<>>
MapSet(m, k, v) == (k :> v) @@ m

\* d[k] = v on a plain dict: an existing key keeps its place, a new one is last.
DictHas(d, k) == \E i \in 1..Len(d) : d[i].k = k
DictIdx(d, k) == CHOOSE i \in 1..Len(d) : d[i].k = k
DictGet(d, k, default) == IF DictHas(d, k) THEN d[DictIdx(d, k)].v ELSE default
DictSet(d, k, v) ==
    IF DictHas(d, k) THEN [d EXCEPT ![DictIdx(d, k)] = [k |-> k, v |-> v]]
    ELSE Append(d, [k |-> k, v |-> v])
DictKeys(d) == {d[i].k : i \in 1..Len(d)}

(***************************************************************************)
(* Session registry and lock registry.                                     *)
(***************************************************************************)
\* An object (a lock, a session handle) is named <<key, n>>: the key it was
\* made for and a number that tells it from the other live objects made for
\* that key.  n is 0 for the object the registry holds and 1, 2, ... for the
\* objects only tasks still refer to; a new object is made with NewGen and
\* named anew at the end of the step (Commit).
NewGen == NumTasks + 1
NoLock == <<NoKey, 0>>
NoSess == <<NoKey, 0>>
FreshLock(key) == <<key, NewGen>>
FreshSess(key) == <<key, NewGen>>

FreeLock == [locked |-> FALSE, waiters |-> <<>>]

Min(S) == CHOOSE x \in S : \A y \in S : x <= y

\* A move_to_end that leaves the entry where it is.
MoveToEnd_InPlace(cache, key) == cache

\* OrderedDict.move_to_end(key)
MoveToEnd(cache, key) ==
    LET i == DictIdx(cache, key)
    IN SubSeq(cache, 1, i - 1) \o SubSeq(cache, i + 1, Len(cache)) \o <<cache[i]>>

\* An eviction loop that never runs.
EvictLRU_Never(cache, reg) == [cache |-> cache, reg |-> reg]

\* An eviction loop that leaves the lock registry alone.
RECURSIVE EvictLRU_KeepLock(_, _)
EvictLRU_KeepLock(cache, reg) ==
    IF Len(cache) > MAX_CACHED_SESSIONS
    THEN EvictLRU_KeepLock(Tail(cache), reg)
    ELSE [cache |-> cache, reg |-> reg]

\* The eviction loop of _get_session: popitem(last=False) and the pop of the
\* evicted key's lock entry, while the cache is over its capacity.
RECURSIVE EvictLRU(_, _)
EvictLRU(cache, reg) ==
    IF Len(cache) > MAX_CACHED_SESSIONS
    THEN EvictLRU(Tail(cache), [reg EXCEPT ![Head(cache).k] = NoLock])
    ELSE [cache |-> cache, reg |-> reg]

Touch(touch, key) == SelectSeq(touch, LAMBDA k : k # key) \o <<key>>

\* _get_session(claude_dir, project_dir) on (cache, reg): fresh is the handle a
\* construction returns, ctor_ok whether SessionCls(...) returns or raises.
_get_session(cache, reg, touch, key, fresh, ctor_ok) ==
    IF DictHas(cache, key)
    THEN [cache |-> MoveToEnd(cache, key), reg |-> reg,
          touch |-> Touch(touch, key),
          sess |-> DictGet(cache, key, NoSess), raised |-> FALSE]
    ELSE IF ~ctor_ok
    THEN [cache |-> cache, reg |-> reg, touch |-> touch,
          sess |-> NoSess, raised |-> TRUE]
    ELSE LET ev == EvictLRU(Append(cache, [k |-> key, v |-> fresh]), reg)
         IN [cache |-> ev.cache, reg |-> ev.reg, touch |-> Touch(touch, key),
             sess |-> fresh, raised |-> FALSE]

\* A lock registry with one lock for all keys: a key without an entry takes
\* the lock another key has.
_get_lock_Shared(reg, key, fresh) ==
    IF reg[key] # NoLock THEN reg
    ELSE IF \E k \in AllKeys : reg[k] # NoLock
    THEN [reg EXCEPT ![key] = reg[CHOOSE k \in AllKeys : reg[k] # NoLock]]
    ELSE [reg EXCEPT ![key] = fresh]

\* _get_lock(claude_dir, project_dir) on reg: the registry afterwards.
_get_lock(reg, key, fresh) ==
    IF reg[key] = NoLock THEN [reg EXCEPT ![key] = fresh] ELSE reg

\* asyncio.Lock.acquire up to its suspension: taken at once when the lock is
\* free and nobody waits, else the task queues behind the waiters.
LockFree(lk) == ~lk.locked /\ lk.waiters = <<>>
\* An acquire that queues the task before the waiters instead of behind them.
LockAcquire_First(lk, t) ==
    IF LockFree(lk) THEN [lk EXCEPT !.locked = TRUE]
    ELSE [lk EXCEPT !.waiters = <<t>> \o @]

\* asyncio.Lock.acquire, as described above LockFree.
LockAcquire(lk, t) ==
    IF LockFree(lk) THEN [lk EXCEPT !.locked = TRUE]
    ELSE [lk EXCEPT !.waiters = Append(@, t)]
\* asyncio.Lock.release: unlocked; the first waiter is woken (it runs later).
LockRelease(lk) == [lk EXCEPT !.locked = FALSE]
\* The woken waiter resumes in acquire: it leaves the queue and takes the lock.
LockResume(lk) == [locked |-> TRUE, waiters |-> Tail(lk.waiters)]

(***************************************************************************)
(* Project file scanner.                                                   *)
(*                                                                         *)
(* A scan configuration is [patterns, exclude, max_files]; patterns and    *)
(* exclude are globs in the code and the sets of relative paths they match *)
(* here.                                                                   *)
(***************************************************************************)
DefaultConfig ==
    [patterns |-> FileNames, exclude |-> {}, max_files |-> DEFAULT_MAX_FILES]

\* if key in prev_mtimes and prev_mtimes[key] == mtime and key in prev_contents
CacheHit_ByKey(prev_mtimes, prev_contents, key, mtime) ==
    /\ key \in DOMAIN prev_mtimes
    /\ key \in DOMAIN prev_contents

CacheHit(prev_mtimes, prev_contents, key, mtime) ==
    /\ key \in DOMAIN prev_mtimes
    /\ prev_mtimes[key] = mtime
    /\ key \in DOMAIN prev_contents

\* The walk of _scan_project_files over the files of one directory, in walk
\* order; acc is [mt, res, n, reads]: new_mtimes, result, file_count and the
\* keys of the files the walk has opened.  A file is [mtime, content, perm]:
\* perm "nostat" makes getmtime raise OSError, "noread" makes open raise it.
RECURSIVE WalkFiles(_, _, _, _, _, _)
WalkFiles(files, dir, config, prev_mtimes, prev_contents, acc) ==
    IF files = <<>> \/ acc.n >= config.max_files THEN acc
    ELSE LET fname == Head(files)
             key == LKey(fname)
         IN IF \/ fname \notin DOMAIN dir
               \/ fname \notin config.patterns
               \/ fname \in config.exclude
            THEN WalkFiles(Tail(files), dir, config, prev_mtimes, prev_contents, acc)
            ELSE IF dir[fname].perm = "nostat"
            THEN WalkFiles(Tail(files), dir, config, prev_mtimes, prev_contents, acc)
            ELSE LET mtime == dir[fname].mtime
                     mt == MapSet(acc.mt, key, mtime)
                 IN IF CacheHit(prev_mtimes, prev_contents, key, mtime)
                    THEN WalkFiles(Tail(files), dir, config, prev_mtimes,
                                   prev_contents,
                                   [acc EXCEPT !.mt = mt,
                                               !.res = MapSet(@, key, prev_contents[key]),
                                               !.n = @ + 1])
                    ELSE IF dir[fname].perm = "noread"
                    THEN WalkFiles(Tail(files), dir, config, prev_mtimes,
                                   prev_contents,
                                   [acc EXCEPT !.mt = mt,
                                               !.reads = @ \cup {key}])
                    ELSE WalkFiles(Tail(files), dir, config, prev_mtimes,
                                   prev_contents,
                                   [acc EXCEPT !.mt = mt,
                                               !.res = MapSet(@, key, dir[fname].content),
                                               !.n = @ + 1,
                                               !.reads = @ \cup {key}])

\* A scan that updates the root's cached maps instead of replacing them.
_scan_project_files_Merge(mc, cc, files, project_dir, config) ==
    LET canonical_proj == _canonical_dir(project_dir)
        prev_mtimes == DictGet(mc, canonical_proj, EmptyMap)
        prev_contents == DictGet(cc, canonical_proj, EmptyMap)
        dir == IF canonical_proj \in DOMAIN files THEN files[canonical_proj]
               ELSE EmptyMap
        w == WalkFiles(WalkOrder, dir, config, prev_mtimes, prev_contents,
                       [mt |-> EmptyMap, res |-> EmptyMap, n |-> 0, reads |-> {}])
    IN [mc |-> DictSet(mc, canonical_proj, w.mt @@ prev_mtimes),
        cc |-> DictSet(cc, canonical_proj, w.res @@ prev_contents),
        result |-> w.res,
        reads |-> w.reads]

\* _scan_project_files(project_dir, config) on the two caches mc and cc:
\* the caches afterwards, the returned map and the files opened.  os.walk
\* reports no error of its own (onerror is None): a root that is no
\* directory (any more), or that cannot be listed, walks as empty.
_scan_project_files(mc, cc, files, project_dir, config) ==
    LET canonical_proj == _canonical_dir(project_dir)
        prev_mtimes == DictGet(mc, canonical_proj, EmptyMap)
        prev_contents == DictGet(cc, canonical_proj, EmptyMap)
        dir == IF canonical_proj \in DOMAIN files THEN files[canonical_proj]
               ELSE EmptyMap
        w == WalkFiles(WalkOrder, dir, config, prev_mtimes, prev_contents,
                       [mt |-> EmptyMap, res |-> EmptyMap, n |-> 0, reads |-> {}])
    IN [mc |-> DictSet(mc, canonical_proj, w.mt),
        cc |-> DictSet(cc, canonical_proj, w.res),
        result |-> w.res,
        reads |-> w.reads]

(***************************************************************************)
(* File injection and boost, on one session's file table: logical key ->   *)
(* [content, raw_pressure, pressure_bucket].                               *)
(***************************************************************************)
\* What add_file leaves in the pressure fields is the engine's business; the
\* bootstrap overwrites it in the same pass.
NewFile(content) ==
    [content |-> content, raw_pressure |-> 0, pressure_bucket |-> 0]

Max(a, b) == IF a >= b THEN a ELSE b

\* The calls one pass of _inject_project_files makes on the session, in
\* order: add_file / update_file per scanned file (in the order of the scan
\* result), _rebuild_dag, then the bootstrap of the newly added files.
ScanOrder(project_files) ==
    SelectSeq([i \in 1..Len(WalkOrder) |-> LKey(WalkOrder[i])],
              LAMBDA key : key \in DOMAIN project_files)
InjectOps_RebuildPerFile(table, project_files) ==
    LET order == ScanOrder(project_files)
        touched(key) == \/ key \notin DOMAIN table
                        \/ table[key].content # project_files[key]
        one(key) == IF key \notin DOMAIN table
                    THEN <<[op |-> "add_file", key |-> key],
                           [op |-> "_rebuild_dag", key |-> ""]>>
                    ELSE IF touched(key)
                    THEN <<[op |-> "update_file", key |-> key],
                           [op |-> "_rebuild_dag", key |-> ""]>>
                    ELSE <<>>
        RECURSIVE all(_)
        all(keys) == IF keys = <<>> THEN <<>> ELSE one(Head(keys)) \o all(Tail(keys))
        added == SelectSeq(order, LAMBDA key : key \notin DOMAIN table)
    IN all(order) \o [i \in 1..Len(added) |-> [op |-> "bootstrap", key |-> added[i]]]

InjectOps(table, project_files) ==
    LET order == ScanOrder(project_files)
        newly_added == SelectSeq(order, LAMBDA key : key \notin DOMAIN table)
        changed == SelectSeq(order, LAMBDA key :
                                 /\ key \in DOMAIN table
                                 /\ table[key].content # project_files[key])
        writes == SelectSeq(order, LAMBDA key :
                                \/ key \notin DOMAIN table
                                \/ table[key].content # project_files[key])
    IN [i \in 1..Len(writes) |->
           [op |-> IF writes[i] \notin DOMAIN table THEN "add_file" ELSE "update_file",
            key |-> writes[i]]]
       \o (IF newly_added # <<>> \/ changed # <<>>
           THEN <<[op |-> "_rebuild_dag", key |-> ""]>> ELSE <<>>)
       \o [i \in 1..Len(newly_added) |-> [op |-> "bootstrap", key |-> newly_added[i]]]

\* A pass that bootstraps every scanned file, known or new.
_inject_project_files_Always(table, project_files) ==
    LET keys == DOMAIN table \cup DOMAIN project_files
    IN [key \in keys |->
          IF key \in DOMAIN project_files
          THEN [content |-> project_files[key],
                raw_pressure |-> BOOTSTRAP_PRESSURE,
                pressure_bucket |-> BOOTSTRAP_BUCKET]
          ELSE table[key]]

_inject_project_files(table, project_files) ==
    LET newly_added == DOMAIN project_files \ DOMAIN table
        keys == DOMAIN table \cup DOMAIN project_files
    IN [key \in keys |->
          IF key \in newly_added
          THEN [NewFile(project_files[key]) EXCEPT
                    !.raw_pressure = BOOTSTRAP_PRESSURE,
                    !.pressure_bucket = BOOTSTRAP_BUCKET]
          ELSE IF key \in DOMAIN project_files
                  /\ table[key].content # project_files[key]
          THEN [table[key] EXCEPT !.content = project_files[key]]
          ELSE table[key]]

BoostIds == {"a.md", "project:b.md", "zz.md"}
\* key = f"project:{bf}" if not bf.startswith("project:") else bf
BoostKey(bf) ==
    CASE bf = "project:b.md" -> bf
      [] OTHER -> "project:" \o bf

\* A boost that assigns the boost values instead of raising to them.
ApplyBoost_Assign(table, boost_files) ==
    LET keys == {BoostKey(bf) : bf \in boost_files}
    IN [key \in DOMAIN table |->
          IF key \in keys
          THEN [table[key] EXCEPT
                    !.raw_pressure = BOOST_PRESSURE,
                    !.pressure_bucket = BOOST_BUCKET]
          ELSE table[key]]

\* The boost loop of _handle_query.
ApplyBoost(table, boost_files) ==
    LET keys == {BoostKey(bf) : bf \in boost_files}
    IN [key \in DOMAIN table |->
          IF key \in keys
          THEN [table[key] EXCEPT
                    !.raw_pressure = Max(@, BOOST_PRESSURE),
                    !.pressure_bucket = Max(@, BOOST_BUCKET)]
          ELSE table[key]]

(***************************************************************************)
(* Requests and responses.                                                 *)
(*                                                                         *)
(* A request line is [kind, id, type, pshape, claude_dir, project_dir,     *)
(* boost]: kind says what the read returned (timeout, eof, blank, a line   *)
(* over the reader's limit or no UTF-8: unreadable, malformed JSON, a JSON  *)
(* value that is no object, an object); id and type                        *)
(* are the object's fields (NoField: absent, JsonNull: null, Unhashable: a *)
(* JSON array or object), pshape the payload's shape (absent, object,      *)
(* scalar: any JSON value that is no object) and the rest the payload's    *)
(* fields.  boost is [ok, ids]: ok is FALSE for a boost_files the loop     *)
(* raises on (an entry that is no string).                                 *)
(***************************************************************************)
NoField == "<absent>"
JsonNull == "<null>"
Unhashable == "<list>"
NoBoost == [ok |-> TRUE, ids |-> {}]

_error_response(request_id, message) ==
    [id |-> request_id, type |-> "error", msg |-> message, timing |-> FALSE]
ResultResponse(request_id, type) ==
    [id |-> request_id, type |-> type, msg |-> "", timing |-> FALSE]

IdleTask ==
    [pc |-> "idle", rid |-> NoField, rtype |-> NoField, key |-> NoKey,
     lock |-> NoLock, sess |-> NoSess, pfiles |-> EmptyMap, boost |-> NoBoost,
     exc |-> "", out |-> <<>>]

\* The shared state as one record, threaded through the stages of a step.
Cur ==
    [cache |-> session_cache, reg |-> session_locks, locks |-> locks,
     sessions |-> sessions, touch |-> lru_touch, mc |-> mtime_cache,
     cc |-> content_cache, stouch |-> scan_touch]

\* The step's result becomes the next state.  Tasks and objects have no names
\* in the code, and the state is kept up to their renaming: the task slots are
\* put in order (by pc, key and place in the lock's queue), objects nothing
\* refers to any more are gone, and the live ones are named 0 for the one its
\* registry holds and 1, 2, ... for the others of its key, by the first task
\* that refers to each.  What a closed connection has left (its request's id
\* and type, the lines written) is kept until the next connection is accepted
\* or closes.
PcOrder == <<"idle", "closed", "drain", "drain_err", "waiting", "turn", "save">>
KeyOrder ==
    <<NoKey, <<"/home/u/.claude", "">>, <<"/home/u/.claude", "/p1">>,
      <<"/c2", "">>, <<"/c2", "/p1">>>>
IndexOf(seq, x) == CHOOSE i \in 1..Len(seq) : seq[i] = x

Table(f) == f @@ <<>>

SlotCode(G, tk, u) ==
    LET q == IF tk.pc = "waiting" THEN G.locks[tk.lock].waiters ELSE <<>>
        place == IF \E i \in 1..Len(q) : q[i] = u THEN IndexOf(q, u) ELSE 0
    IN (IndexOf(PcOrder, tk.pc) * 10 + IndexOf(KeyOrder, tk.key)) * 10 + place

SlotCodes(G, tasks0) == Table([u \in Tasks |-> SlotCode(G, tasks0[u], u)])

Slots(code) ==
    Table([u \in Tasks |->
              1 + Cardinality({v \in Tasks :
                                  \/ code[v] < code[u]
                                  \/ code[v] = code[u] /\ v < u})])

Reordered(tasks0, slot) ==
    Table([p \in Tasks |-> tasks0[CHOOSE u \in Tasks : slot[u] = p]])

Rank(obj, held, live, first) ==
    IF obj \in held THEN 0
    ELSE 1 + Cardinality({o \in live \ held :
                            o[1] = obj[1] /\ first[o] < first[obj]})

Names(held, refs, none) ==
    LET used == {refs[u] : u \in Tasks} \ {none}
        live == held \cup used
        first == Table([o \in used |-> Min({u \in Tasks : refs[u] = o})])
    IN Table([o \in live \cup {none} |->
                 IF o = none THEN none
                 ELSE <<o[1], Rank(o, held, live, first)>>])

LockNames(G, tasks1) ==
    Names({G.reg[k] : k \in AllKeys} \ {NoLock},
          Table([u \in Tasks |-> tasks1[u].lock]), NoLock)

SessNames(G, tasks1) ==
    Names({G.cache[i].v : i \in 1..Len(G.cache)},
          Table([u \in Tasks |-> tasks1[u].sess]), NoSess)

Renamed(G, tasks1, slot, lname, sname) ==
    LET llive == DOMAIN lname \ {NoLock}
        slive == DOMAIN sname \ {NoSess}
        lstate(l) == [G.locks[l] EXCEPT
                         !.waiters = [i \in 1..Len(@) |-> slot[@[i]]]]
    IN [cache |-> [i \in 1..Len(G.cache) |->
                      [k |-> G.cache[i].k, v |-> sname[G.cache[i].v]]],
        reg |-> [k \in AllKeys |-> lname[G.reg[k]]],
        locks |-> [n \in {lname[l] : l \in llive} |->
                      lstate(CHOOSE l \in llive : lname[l] = n)],
        sessions |-> [n \in {sname[h] : h \in slive} |->
                         G.sessions[CHOOSE h \in slive : sname[h] = n]],
        task |-> [u \in Tasks |->
                     [tasks1[u] EXCEPT !.lock = lname[@], !.sess = sname[@]]]]

Settled(t, tk) ==
    [u \in Tasks |->
        IF u = t THEN tk
        ELSE IF /\ task[u].pc = "closed"
                /\ tk.pc = "closed" \/ task[t].pc \in {"idle", "closed"}
        THEN IdleTask
        ELSE task[u]]

Commit(G, t, tk, srv) ==
    \E tasks0 \in {Settled(t, tk)} :
    \E slot \in {Slots(SlotCodes(G, tasks0))} :
    \E tasks1 \in {Reordered(tasks0, slot)} :
    \E lname \in {LockNames(G, tasks1)} :
    \E sname \in {SessNames(G, tasks1)} :
    \E n \in {Renamed(G, tasks1, slot, lname, sname)} :
       /\ session_cache' = n.cache
       /\ session_locks' = n.reg
       /\ locks' = n.locks
       /\ sessions' = n.sessions
       /\ lru_touch' = G.touch
       /\ mtime_cache' = G.mc
       /\ content_cache' = G.cc
       /\ scan_touch' = G.stouch
       /\ task' = n.task
       /\ server' = srv
       /\ UNCHANGED <<fs, rescans, get_log, call>>

(***************************************************************************)
(* The connection handler's tail: write, drain, catch-all, close.  It      *)
(* works on c = [tk, srv], the task and the server.                        *)
(*                                                                         *)
(* e is what the environment does to a step: e.ctor and e.inject say       *)
(* whether a session construction and an injection pass return (TRUE) or   *)
(* raise; e.w1 whether writer.write of the response returns or raises and  *)
(* e.d1 whether the drain after it returns at once, suspends the task (the *)
(* transport's buffer is over its high-water mark) or raises; e.w2 and     *)
(* e.d2 are the same for the catch-all's error response.                   *)
(***************************************************************************)
request_shutdown(srv) == [srv EXCEPT !.shutdown_set = TRUE, !.listening = FALSE]

\* A finally block that waits for the peer instead of closing.
Close_Never(c) == [c EXCEPT !.tk.pc = "drain_err"]

\* finally: writer.close(); await writer.wait_closed(), failures suppressed.
Close(c) == [c EXCEPT !.tk.pc = "closed"]

\* except Exception (H28): an error response with id "unknown" is written and
\* drained; a failure of either is logged and suppressed.
CatchAll(c, e) ==
    IF ~e.w2 THEN Close(c)
    ELSE LET c1 == [c EXCEPT !.tk.out =
                        Append(@, _error_response("unknown", "Internal server error"))]
         IN IF e.d2 = "suspends" THEN [c1 EXCEPT !.tk.pc = "drain_err"]
            ELSE Close(c1)

\* A handler that signals the exit after the response of any request.
Drained_AnyType(c) == Close([c EXCEPT !.srv = request_shutdown(@)])

\* After the drain of the response: a shutdown request signals the exit.
Drained(c) ==
    Close(IF c.tk.rtype = "shutdown"
          THEN [c EXCEPT !.srv = request_shutdown(@)] ELSE c)

\* A write that signals the shutdown before the response is written.
WriteLine_ShutdownFirst(c, resp, e) ==
    LET c0 == IF c.tk.rtype = "shutdown"
              THEN [c EXCEPT !.srv = request_shutdown(@)] ELSE c
    IN IF ~e.w1 THEN CatchAll(c0, e)
       ELSE LET c1 == [c0 EXCEPT !.tk.out = Append(@, resp)]
            IN CASE e.d1 = "returns" -> Drained(c1)
                 [] e.d1 = "suspends" -> [c1 EXCEPT !.tk.pc = "drain"]
                 [] OTHER -> CatchAll(c1, e)

\* writer.write(json.dumps(resp)), then await writer.drain().
WriteLine(c, resp, e) ==
    IF ~e.w1 THEN CatchAll(c, e)
    ELSE LET c1 == [c EXCEPT !.tk.out = Append(@, resp)]
         IN CASE e.d1 = "returns" -> Drained(c1)
              [] e.d1 = "suspends" -> [c1 EXCEPT !.tk.pc = "drain"]
              [] OTHER -> CatchAll(c1, e)

\* The two early returns (malformed JSON, no object): write, drain, return.
WriteEarly(c, resp, e) ==
    IF ~e.w1 THEN CatchAll(c, e)
    ELSE LET c1 == [c EXCEPT !.tk.out = Append(@, resp)]
         IN CASE e.d1 = "returns" -> Close(c1)
              [] e.d1 = "suspends" -> [c1 EXCEPT !.tk.pc = "drain"]
              [] OTHER -> CatchAll(c1, e)

\* resp["timing_ms"] = elapsed_ms, then the write.
WriteRouted(c, resp, e) == WriteLine(c, [resp EXCEPT !.timing = TRUE], e)

(***************************************************************************)
(* The query handler.  Its stages return [G, tk, resp, state]: state is    *)
(* "suspended" (the task waits for the lock or for the engine) or          *)
(* "returned" (resp is the handler's response).                            *)
(***************************************************************************)
\* The handler's locals are gone when it returns.
Return(tk) ==
    [tk EXCEPT !.key = NoKey, !.lock = NoLock, !.sess = NoSess,
               !.pfiles = EmptyMap, !.boost = NoBoost]

Suspended(G, tk) ==
    [G |-> G, tk |-> tk, resp |-> ResultResponse("", ""), state |-> "suspended"]

\* async with lock: __aexit__ releases the lock, also when the body raised.
ReleaseLock(G, tk) ==
    [G EXCEPT !.locks[tk.lock] = LockRelease(@)]

\* An exception handler that answers and leaves the lock taken.
QueryFailed_LockKept(G, tk, message) ==
    [G |-> G,
     tk |-> Return([tk EXCEPT !.exc = message]),
     resp |-> [id |-> tk.rid, type |-> "error", msg |-> message, timing |-> FALSE],
     state |-> "returned"]

\* except Exception as e: the error response of _handle_query.
QueryFailed(G, tk, message) ==
    [G |-> ReleaseLock(G, tk),
     tk |-> Return([tk EXCEPT !.exc = message]),
     resp |-> [id |-> tk.rid, type |-> "error", msg |-> message, timing |-> FALSE],
     state |-> "returned"]

\* The body of "async with lock" up to the first engine call: session lookup,
\* injection, boost, then turn() is handed to a worker thread.
LockedSection(G, tk, e) ==
    LET gs == _get_session(G.cache, G.reg, G.touch, tk.key, FreshSess(tk.key), e.ctor)
        sessions1 == IF gs.sess \in DOMAIN G.sessions THEN G.sessions
                     ELSE (gs.sess :> EmptyMap) @@ G.sessions
        G1 == [G EXCEPT !.cache = gs.cache, !.reg = gs.reg, !.touch = gs.touch,
                        !.sessions = IF gs.raised THEN @ ELSE sessions1]
        table0 == sessions1[gs.sess]
        table1 == IF tk.pfiles # EmptyMap
                  THEN _inject_project_files(table0, tk.pfiles) ELSE table0
        table2 == ApplyBoost(table1, tk.boost.ids)
        tk1 == [tk EXCEPT !.sess = gs.sess]
    IN IF gs.raised THEN QueryFailed(G1, tk, "E_construct")
       ELSE IF tk.pfiles # EmptyMap /\ ~e.inject
       THEN QueryFailed(G1, tk1, "E_inject")
       ELSE IF ~tk.boost.ok
       THEN QueryFailed([G1 EXCEPT !.sessions[gs.sess] = table1], tk1, "E_boost")
       ELSE Suspended([G1 EXCEPT !.sessions[gs.sess] = table2],
                      [tk1 EXCEPT !.pc = "turn"])

\* _handle_query from its first line to its first suspension.  A payload
\* that is no object raises before the try block (state "raised").
_handle_query(G, t, tk, req, e) ==
    IF tk.rid = NoField
    THEN [G |-> G, tk |-> tk, state |-> "returned",
          resp |-> _error_response("unknown", "Missing 'id' field")]
    ELSE IF tk.rtype = NoField
    THEN [G |-> G, tk |-> tk, state |-> "returned",
          resp |-> _error_response(tk.rid, "Missing 'type' field")]
    ELSE IF req.pshape = "scalar"
    THEN [G |-> G, tk |-> tk, resp |-> ResultResponse("", ""), state |-> "raised"]
    ELSE
    LET given == req.pshape = "object"
        claude_dir == IF given /\ req.claude_dir # "" THEN req.claude_dir
                      ELSE DEFAULT_CLAUDE_DIR
        project_dir == IF given THEN req.project_dir ELSE ""
        boost_files == IF given THEN req.boost ELSE NoBoost
        scanned == project_dir # "" /\ _canonical_dir(project_dir) \in DOMAIN fs
        sc == _scan_project_files(G.mc, G.cc, fs, project_dir, DefaultConfig)
        G1 == IF scanned
              THEN [G EXCEPT !.mc = sc.mc, !.cc = sc.cc,
                             !.stouch = Touch(@, _canonical_dir(project_dir))]
              ELSE G
        key == _cache_key(claude_dir, project_dir)
        reg1 == _get_lock(G1.reg, key, FreshLock(key))
        lock == reg1[key]
        locks1 == IF lock \in DOMAIN G1.locks THEN G1.locks
                  ELSE (lock :> FreeLock) @@ G1.locks
        G2 == [G1 EXCEPT !.reg = reg1,
                         !.locks = [locks1 EXCEPT ![lock] = LockAcquire(@, t)]]
        tk1 == [tk EXCEPT !.key = key, !.lock = lock, !.boost = boost_files,
                          !.pfiles = IF scanned THEN sc.result ELSE EmptyMap]
    IN IF LockFree(locks1[lock]) THEN LockedSection(G2, tk1, e)
       ELSE Suspended(G2, [tk1 EXCEPT !.pc = "waiting"])

_handle_ping(tk) == ResultResponse(tk.rid, "pong")
_handle_update(tk) == ResultResponse(tk.rid, "result")

\* A router whose ping looks the default session up.
route_request_PingGets(G, t, tk, req, e) ==
    LET done(resp) == [G |-> G, tk |-> tk, resp |-> resp, state |-> "returned"]
        key == _cache_key(DEFAULT_CLAUDE_DIR, "")
        gs == _get_session(G.cache, G.reg, G.touch, key, FreshSess(key), TRUE)
        G1 == [G EXCEPT !.cache = gs.cache, !.reg = gs.reg, !.touch = gs.touch,
                        !.sessions = IF gs.sess \in DOMAIN @ THEN @
                                     ELSE (gs.sess :> EmptyMap) @@ @]
    IN IF req.id \in {NoField, JsonNull}
       THEN done(_error_response("unknown", "Missing 'id' field"))
       ELSE IF req.type \in {NoField, JsonNull}
       THEN done(_error_response(req.id, "Missing 'type' field"))
       ELSE IF req.type = "shutdown"
       THEN done(ResultResponse(req.id, "result"))
       ELSE IF req.type = Unhashable
       THEN [G |-> G, tk |-> tk, resp |-> ResultResponse("", ""), state |-> "raised"]
       ELSE IF req.type = "ping"
       THEN [G |-> G1, tk |-> tk, resp |-> _handle_ping(tk), state |-> "returned"]
       ELSE IF req.type = "update" THEN done(_handle_update(tk))
       ELSE IF req.type = "query" THEN _handle_query(G, t, tk, req, e)
       ELSE done(_error_response(req.id, "Unknown request type: " \o req.type))

\* route_request(req), up to the handler's first suspension.
route_request(G, t, tk, req, e) ==
    LET done(resp) == [G |-> G, tk |-> tk, resp |-> resp, state |-> "returned"]
    IN IF req.id \in {NoField, JsonNull}
       THEN done(_error_response("unknown", "Missing 'id' field"))
       ELSE IF req.type \in {NoField, JsonNull}
       THEN done(_error_response(req.id, "Missing 'type' field"))
       ELSE IF req.type = "shutdown"
       THEN done(ResultResponse(req.id, "result"))
       ELSE IF req.type = Unhashable
       THEN [G |-> G, tk |-> tk, resp |-> ResultResponse("", ""), state |-> "raised"]
       ELSE IF req.type = "ping" THEN done(_handle_ping(tk))
       ELSE IF req.type = "update" THEN done(_handle_update(tk))
       ELSE IF req.type = "query" THEN _handle_query(G, t, tk, req, e)
       ELSE done(_error_response(req.id, "Unknown request type: " \o req.type))

\* The connection handler after route_request has come to a result.
AfterRoute(r, srv, e) ==
    LET c == [tk |-> r.tk, srv |-> srv]
    IN CASE r.state = "suspended" -> c
         [] r.state = "raised" -> CatchAll(c, e)
         [] OTHER -> WriteRouted(c, r.resp, e)

(***************************************************************************)
(* The actions: one per atomic stretch of a connection task.               *)
(***************************************************************************)
\* Every stage is evaluated once and its result handed on.
Done(G, t, c0) == \E c \in {c0} : Commit(G, t, c.tk, c.srv)
Routed(t, r0, e) ==
    \E r \in {r0} : \E c \in {AfterRoute(r, server, e)} : Commit(r.G, t, c.tk, c.srv)

\* A connection is accepted and its request line read; the handler runs to
\* its first suspension.  A task slot is free before its first connection
\* and once its connection is closed; tasks have no names in the code, and a
\* new connection's task takes the first free slot.
FreeSlots == {u \in Tasks : task[u].pc \in {"idle", "closed"}}
Open(tk) == tk.pc \notin {"idle", "closed"}
AnyOpen == \E t \in Tasks : Open(task[t])

Connect(t, req, e) ==
    /\ FreeSlots # {}
    /\ t = Min(FreeSlots)
    /\ server.listening
    /\ LET isobj == req.kind = "object"
           tk == [IdleTask EXCEPT !.rid = IF isobj THEN req.id ELSE NoField,
                                  !.rtype = IF isobj THEN req.type ELSE NoField]
           c == [tk |-> tk, srv |-> server]
       IN CASE req.kind \in {"timeout", "eof", "blank"} -> Done(Cur, t, Close(c))
            [] req.kind = "unreadable" -> Done(Cur, t, CatchAll(c, e))
            [] req.kind = "malformed" ->
                 Done(Cur, t,
                      WriteEarly(c, _error_response("unknown", "Malformed JSON"), e))
            [] req.kind = "nonobject" ->
                 Done(Cur, t,
                      WriteEarly(c, _error_response("unknown", "BAD_REQUEST"), e))
            [] OTHER -> Routed(t, route_request(Cur, t, tk, req, e), e)

\* The lock was released and this task, first of its waiters, resumes.
ResumeQuery(t, e) ==
    /\ task[t].pc = "waiting"
    /\ ~locks[task[t].lock].locked
    /\ Head(locks[task[t].lock].waiters) = t
    /\ Routed(t, LockedSection([Cur EXCEPT !.locks[task[t].lock] = LockResume(@)],
                               task[t], e), e)

\* session.turn returns (ok) or raises in its worker thread.
TurnDone(t, ok, e) ==
    /\ task[t].pc = "turn"
    /\ Routed(t, IF ok THEN Suspended(Cur, [task[t] EXCEPT !.pc = "save"])
                 ELSE QueryFailed(Cur, task[t], "E_turn"), e)

\* session.save returns (ok) or raises; the lock is released either way.
SaveDone(t, ok, e) ==
    /\ task[t].pc = "save"
    /\ Routed(t, IF ok
                 THEN [G |-> ReleaseLock(Cur, task[t]), tk |-> Return(task[t]),
                       resp |-> ResultResponse(task[t].rid, "result"),
                       state |-> "returned"]
                 ELSE QueryFailed(Cur, task[t], "E_save"), e)

\* A suspended writer.drain() of the response returns (ok) or raises.
DrainDone(t, ok, e) ==
    /\ task[t].pc = "drain"
    /\ LET c == [tk |-> task[t], srv |-> server]
       IN Done(Cur, t, IF ok THEN Drained(c) ELSE CatchAll(c, e))

\* A suspended writer.drain() of the catch-all's error response ends: a
\* failure is suppressed.
DrainErrDone(t) ==
    /\ task[t].pc = "drain_err"
    /\ Done(Cur, t, Close([tk |-> task[t], srv |-> server]))

NoCall == [op |-> "none"]

NoGet ==
    [calls |-> 0, made |-> 0, key |-> NoKey, sess |-> NoSess, hit |-> FALSE,
     raised |-> FALSE]

Init ==
    /\ session_cache = <<>>
    /\ session_locks = [k \in AllKeys |-> NoLock]
    /\ locks = <<>>
    /\ sessions = <<>>
    /\ mtime_cache = <<>>
    /\ content_cache = <<>>
    /\ fs = [r \in AllRoots |-> ("a.md" :> [mtime |-> 1, content |-> "c1", perm |-> "ok"])]
    /\ task = [t \in Tasks |-> IdleTask]
    /\ server = [listening |-> TRUE, shutdown_set |-> FALSE]
    /\ lru_touch = <<>>
    /\ scan_touch = <<>>
    /\ rescans = 0
    /\ get_log = NoGet
    /\ call = NoCall

(***************************************************************************)
(* Spec: concurrent query requests over four cache keys.  Every request is *)
(* a well-formed query; the engine calls return; the response is written   *)
(* and drained at once.                                                    *)
(***************************************************************************)
Drains == {"returns", "suspends", "raises"}
QueryRequests ==
    [kind : {"object"}, id : {"i1"}, type : {"query"}, pshape : {"object"},
     claude_dir : {"", "/c2"}, project_dir : {"", "/p1"}, boost : {NoBoost}]
QueryEnvs ==
    [ctor : {TRUE}, inject : {TRUE}, w1 : {TRUE}, d1 : {"returns"},
     w2 : {TRUE}, d2 : {"returns"}]

Next ==
    \E t \in Tasks :
        \/ \E req \in QueryRequests, e \in QueryEnvs : Connect(t, req, e)
        \/ \E e \in QueryEnvs : ResumeQuery(t, e)
        \/ \E e \in QueryEnvs : TurnDone(t, TRUE, e)
        \/ \E e \in QueryEnvs : SaveDone(t, TRUE, e)

Spec == Init /\ [][Next]_vars

(***************************************************************************)
(* SpecFail: concurrent queries whose engine calls may raise: the session  *)
(* construction, the injection pass, the boost loop (a boost_files entry   *)
(* that is no string), turn() and save().                                  *)
(***************************************************************************)
BadBoost == [ok |-> FALSE, ids |-> {}]
FailRequests ==
    [kind : {"object"}, id : {"i1", "i2"}, type : {"query"}, pshape : {"object"},
     claude_dir : {""}, project_dir : {"", "/p1"}, boost : {NoBoost, BadBoost}]
FailEnvs ==
    [ctor : BOOLEAN, inject : BOOLEAN, w1 : {TRUE}, d1 : {"returns"},
     w2 : {TRUE}, d2 : {"returns"}]

NextFail ==
    \E t \in Tasks :
        \/ \E req \in FailRequests, e \in FailEnvs : Connect(t, req, e)
        \/ \E e \in FailEnvs : ResumeQuery(t, e)
        \/ \E ok \in BOOLEAN, e \in QueryEnvs : TurnDone(t, ok, e)
        \/ \E ok \in BOOLEAN, e \in QueryEnvs : SaveDone(t, ok, e)

SpecFail == Init /\ [][NextFail]_vars

(***************************************************************************)
(* SpecScan: _scan_project_files called directly on the roots ScanRoot(1), *)
(* ScanRoot(2), ...: a root is scanned for the first time after the roots  *)
(* before it, and a root already scanned may be scanned again.             *)
(***************************************************************************)
ScanCall(i) ==
    /\ i <= Len(scan_touch) + 1
    /\ ScanRoot(i) \in DictKeys(mtime_cache) => rescans < MaxRescans
    /\ \E sc \in {_scan_project_files(mtime_cache, content_cache, fs,
                                      ScanRoot(i), DefaultConfig)} :
          /\ mtime_cache' = sc.mc
          /\ content_cache' = sc.cc
    /\ scan_touch' = Touch(scan_touch, _canonical_dir(ScanRoot(i)))
    /\ rescans' = IF ScanRoot(i) \in DictKeys(mtime_cache) THEN rescans + 1
                  ELSE rescans
    /\ UNCHANGED <<session_cache, session_locks, locks, sessions, fs, task,
                   server, lru_touch, get_log, call>>

NextScan == \E i \in 1..NumScanRoots : ScanCall(i)

SpecScan == Init /\ [][NextScan]_vars

(***************************************************************************)
(* SpecConn: connections with request lines of every shape, on a transport *)
(* whose writes and drains may fail or suspend; one connection is open at  *)
(* a time.                                                                 *)
(***************************************************************************)
Req(kind, id, type, pshape) ==
    [kind |-> kind, id |-> id, type |-> type, pshape |-> pshape,
     claude_dir |-> "", project_dir |-> "", boost |-> NoBoost]
ConnIds == {NoField, JsonNull, "i1"}
ConnTypes == {NoField, Unhashable, "ping", "query", "update", "shutdown", "bogus"}
ConnRequests ==
    {Req(kind, NoField, NoField, "absent") :
        kind \in {"timeout", "eof", "blank", "unreadable", "malformed", "nonobject"}}
    \cup {Req("object", id, type, "absent") : id \in ConnIds, type \in ConnTypes}
    \cup {Req("object", id, "query", pshape) :
             id \in ConnIds, pshape \in {"object", "scalar"}}
\* The catch-all's write and drain matter once the first write or drain raised.
ConnEnvs ==
    {e \in [ctor : {TRUE}, inject : {TRUE}, w1 : BOOLEAN, d1 : Drains,
            w2 : BOOLEAN, d2 : Drains] :
        /\ ~e.w1 => e.d1 = "returns"
        /\ ~e.w2 => e.d2 = "returns"
        /\ e.w1 /\ e.d1 # "raises" => e.w2 /\ e.d2 = "returns"}

NextConn ==
    \E t \in Tasks :
        \/ /\ FreeSlots = Tasks
           /\ \E req \in ConnRequests, e \in ConnEnvs : Connect(t, req, e)
        \/ \E e \in ConnEnvs : TurnDone(t, TRUE, e)
        \/ \E e \in ConnEnvs : SaveDone(t, TRUE, e)
        \/ \E ok \in BOOLEAN, e \in ConnEnvs : DrainDone(t, ok, e)
        \/ DrainErrDone(t)

SpecConn == Init /\ [][NextConn]_vars

(***************************************************************************)
(* SpecLive: the connections of SpecConn, with engine calls that return or *)
(* raise, under the fairness the event loop gives: a worker thread's       *)
(* result is delivered to the task that awaits it.  When a suspended       *)
(* drain ends is the peer's business: nothing makes it end.                *)
(***************************************************************************)
EngineSteps ==
    \E t \in Tasks, ok \in BOOLEAN, e \in ConnEnvs :
        TurnDone(t, ok, e) \/ SaveDone(t, ok, e)
DrainSteps ==
    \E t \in Tasks :
        \/ \E ok \in BOOLEAN, e \in ConnEnvs : DrainDone(t, ok, e)
        \/ DrainErrDone(t)

NextLive ==
    \/ \E t \in Tasks :
          /\ FreeSlots = Tasks
          /\ \E req \in ConnRequests, e \in ConnEnvs : Connect(t, req, e)
    \/ EngineSteps
    \/ DrainSteps

SpecLive == Init /\ [][NextLive]_vars /\ WF_vars(EngineSteps)

(***************************************************************************)
(* SpecRoute: request objects of every id and type, one connection at a    *)
(* time, on a transport whose writes and drains return: the first line a   *)
(* connection writes is what route_request returned, if it returned.       *)
(***************************************************************************)
RouteIds == {NoField, JsonNull, "i1", "i2"}
RouteTypes ==
    {NoField, JsonNull, Unhashable, "ping", "query", "update", "shutdown",
     "bogus", "Ping"}
RouteRequests ==
    {Req("object", id, type, "absent") : id \in RouteIds, type \in RouteTypes}
    \cup {[Req("object", id, "query", "object") EXCEPT
              !.claude_dir = claude_dir, !.project_dir = project_dir] :
             id \in RouteIds, claude_dir \in {"", "/c2"}, project_dir \in {"", "/p1"}}

NextRoute ==
    \E t \in Tasks :
        \/ /\ FreeSlots = Tasks
           /\ \E req \in RouteRequests, e \in QueryEnvs : Connect(t, req, e)
        \/ \E e \in QueryEnvs : TurnDone(t, TRUE, e)
        \/ \E e \in QueryEnvs : SaveDone(t, TRUE, e)

SpecRoute == Init /\ [][NextRoute]_vars

(***************************************************************************)
(* SpecShutdown: one connection at a time on a transport that does not     *)
(* fail, a termination signal, and the exit of the process.                *)
(*                                                                         *)
(* After request_shutdown, serve_forever leaves "async with self._server", *)
(* whose exit awaits Server.wait_closed(); _run returns and asyncio.run    *)
(* cancels the tasks that are left.  wait_closed() waits for the open      *)
(* connections from Python 3.12 on and returns at once before: whether a   *)
(* handler in flight is cancelled depends on the interpreter, and MainExit *)
(* may or may not happen.                                                  *)
(***************************************************************************)
\* loop.add_signal_handler(sig, server.request_shutdown)
Signal ==
    /\ ~server.shutdown_set
    /\ server' = request_shutdown(server)
    /\ UNCHANGED <<session_cache, session_locks, locks, sessions, mtime_cache,
                   content_cache, fs, task, lru_touch, scan_touch, rescans,
                   get_log, call>>

\* CancelledError raised at the task's await: "async with lock" releases a
\* lock that is held, a waiter leaves the lock's queue; except Exception does
\* not catch it; the finally block closes the writer.
Cancelled(G, t, tk) ==
    [G |-> IF tk.pc \in {"turn", "save"} THEN ReleaseLock(G, tk)
           ELSE IF tk.pc = "waiting"
           THEN [G EXCEPT !.locks[tk.lock].waiters =
                              SelectSeq(@, LAMBDA u : u # t)]
           ELSE G,
     tk |-> [Return(tk) EXCEPT !.pc = "closed", !.exc = "CancelledError"]]

\* asyncio.run(_run(args)) returns while a handler is in flight.
MainExit(t) ==
    /\ server.shutdown_set
    /\ Open(task[t])
    /\ \E c \in {Cancelled(Cur, t, task[t])} : Commit(c.G, t, c.tk, server)

NextShutdown ==
    \/ \E t \in Tasks :
          \/ /\ FreeSlots = Tasks
             /\ \E req \in RouteRequests, e \in QueryEnvs : Connect(t, req, e)
          \/ \E e \in QueryEnvs : TurnDone(t, TRUE, e)
          \/ \E e \in QueryEnvs : SaveDone(t, TRUE, e)
          \/ MainExit(t)
    \/ Signal

SpecShutdown == Init /\ [][NextShutdown]_vars

(***************************************************************************)
(* SpecRescan: scans of one project root whose files change between the    *)
(* scans: a file is written with or without a new modification time,       *)
(* removed, made unreadable or unstatable; the directory is removed and    *)
(* made again; the patterns of the scan's config vary.                     *)
(***************************************************************************)
RescanRoot == ScanRoot(1)
MaxMtime == 2
Perms == {"ok", "noread", "nostat"}
RescanConfigs ==
    {DefaultConfig, [DefaultConfig EXCEPT !.patterns = {"a.md"}]}
\* What the file system may hold for a file: a.md in every shape, b.md in one.
FileShapes(fname) ==
    IF fname = "a.md"
    THEN [mtime : 1..MaxMtime, content : Contents, perm : Perms]
    ELSE {[mtime |-> 1, content |-> "c1", perm |-> "ok"]}

RescanCall(config) ==
    /\ \E sc \in {_scan_project_files(mtime_cache, content_cache, fs,
                                      RescanRoot, config)} :
          /\ mtime_cache' = sc.mc
          /\ content_cache' = sc.cc
          /\ call' = [op |-> "scan", config |-> config,
                      prev |-> DOMAIN DictGet(mtime_cache, RescanRoot, EmptyMap),
                      result |-> sc.result, reads |-> sc.reads]
    /\ scan_touch' = Touch(scan_touch, _canonical_dir(RescanRoot))
    /\ UNCHANGED <<session_cache, session_locks, locks, sessions, fs, task,
                   server, lru_touch, rescans, get_log>>

FsStep(files) ==
    /\ fs' = files
    /\ call' = [op |-> "fs"]
    /\ UNCHANGED <<session_cache, session_locks, locks, sessions, mtime_cache,
                   content_cache, task, server, lru_touch, scan_touch,
                   rescans, get_log>>

\* Create, rewrite, touch or chmod one file.
WriteFile(fname, file) ==
    /\ RescanRoot \in DOMAIN fs
    /\ FsStep([fs EXCEPT ![RescanRoot] = MapSet(@, fname, file)])

RemoveFile(fname) ==
    /\ RescanRoot \in DOMAIN fs
    /\ fname \in DOMAIN fs[RescanRoot]
    /\ FsStep([fs EXCEPT ![RescanRoot] =
                  [f \in DOMAIN @ \ {fname} |-> @[f]]])

RemoveDir ==
    /\ RescanRoot \in DOMAIN fs
    /\ FsStep([r \in DOMAIN fs \ {RescanRoot} |-> fs[r]])

MakeDir ==
    /\ RescanRoot \notin DOMAIN fs
    /\ FsStep((RescanRoot :> EmptyMap) @@ fs)

NextRescan ==
    \/ \E config \in RescanConfigs : RescanCall(config)
    \/ \E fname \in FileNames : \E file \in FileShapes(fname) : WriteFile(fname, file)
    \/ \E fname \in FileNames : RemoveFile(fname)
    \/ RemoveDir
    \/ MakeDir

SpecRescan == Init /\ [][NextRescan]_vars

(***************************************************************************)
(* SpecFrame: queries that fill the registries and the scan cache, ping    *)
(* and update requests, and direct calls of _scan_project_files, one       *)
(* connection at a time on a transport that does not fail.                 *)
(***************************************************************************)
FrameRequests ==
    {Req("object", "i1", type, "absent") : type \in {"ping", "update"}}
    \cup {[Req("object", "i1", "query", "object") EXCEPT
              !.claude_dir = claude_dir, !.project_dir = project_dir] :
             claude_dir \in {"", "/c2"}, project_dir \in {"", "/p1"}}
FrameRoots == {"/p1", RescanRoot}

FrameScanCall(project_dir) ==
    /\ \E sc \in {_scan_project_files(mtime_cache, content_cache, fs,
                                      project_dir, DefaultConfig)} :
          /\ mtime_cache' = sc.mc
          /\ content_cache' = sc.cc
          /\ call' = [op |-> "scan", root |-> project_dir, result |-> sc.result]
    /\ scan_touch' = Touch(scan_touch, _canonical_dir(project_dir))
    /\ UNCHANGED <<session_cache, session_locks, locks, sessions, fs, task,
                   server, lru_touch, rescans, get_log>>

NextFrame ==
    \/ \E t \in Tasks :
          \/ /\ FreeSlots = Tasks
             /\ \E req \in FrameRequests, e \in QueryEnvs : Connect(t, req, e)
          \/ \E e \in QueryEnvs : TurnDone(t, TRUE, e)
          \/ \E e \in QueryEnvs : SaveDone(t, TRUE, e)
    \/ \E project_dir \in FrameRoots : FrameScanCall(project_dir)

SpecFrame == Init /\ [][NextFrame]_vars

(***************************************************************************)
(* SpecLeak: queries over the four cache keys, two of them in flight at a  *)
(* time, whose session construction, turn() and save() return or raise.    *)
(***************************************************************************)
MaxInFlight == 2
LeakEnvs ==
    [ctor : BOOLEAN, inject : {TRUE}, w1 : {TRUE}, d1 : {"returns"},
     w2 : {TRUE}, d2 : {"returns"}]

NextLeak ==
    \E t \in Tasks :
        \/ /\ Cardinality({u \in Tasks : Open(task[u])}) < MaxInFlight
           /\ \E req \in QueryRequests, e \in LeakEnvs : Connect(t, req, e)
        \/ \E e \in LeakEnvs : ResumeQuery(t, e)
        \/ \E ok \in BOOLEAN, e \in QueryEnvs : TurnDone(t, ok, e)
        \/ \E ok \in BOOLEAN, e \in QueryEnvs : SaveDone(t, ok, e)

SpecLeak == Init /\ [][NextLeak]_vars

(***************************************************************************)
(* SpecFair: concurrent queries over the four cache keys under the event   *)
(* loop's scheduling.  The open connections have different request ids,    *)
(* which tell them apart from state to state.  The loop runs every         *)
(* callback it has scheduled: a waiter woken by release() resumes, and the *)
(* result of a worker thread that returned or raised is delivered.         *)
(***************************************************************************)
FairIds == {"i1", "i2", "i3"}
\* i1 and i2 query one key; i3 queries the other keys, which evicts the first.
OneKey(req) == req.claude_dir = "" /\ req.project_dir = ""
FairRequests ==
    {[req EXCEPT !.id = id] :
        req \in {r \in QueryRequests : OneKey(r)}, id \in {"i1", "i2"}}
    \cup {[req EXCEPT !.id = "i3"] : req \in {r \in QueryRequests : ~OneKey(r)}}

\* The next step of the connection whose request has the id.
StepOf(id) ==
    \E t \in Tasks :
        /\ task[t].rid = id
        /\ \/ \E e \in QueryEnvs : ResumeQuery(t, e)
           \/ \E ok \in BOOLEAN, e \in QueryEnvs : TurnDone(t, ok, e)
           \/ \E e \in QueryEnvs : SaveDone(t, TRUE, e)

NextFair ==
    \/ \E t \in Tasks, req \in FairRequests, e \in QueryEnvs :
          /\ \A u \in Tasks : Open(task[u]) => task[u].rid # req.id
          /\ Connect(t, req, e)
    \/ \E id \in FairIds : StepOf(id)

SpecFair ==
    Init /\ [][NextFair]_vars /\ \A id \in FairIds : WF_vars(StepOf(id))

(***************************************************************************)
(* SpecInject: the injection pass, the boost loop and the engine's turn,   *)
(* called directly on one session, for any sequence of scan results and    *)
(* boost lists.  What turn() does to a file's pressure is the engine's     *)
(* business: it leaves any of EnginePressures.                             *)
(***************************************************************************)
InjectKey == <<"/home/u/.claude", "/p1">>
InjectSess == <<InjectKey, 0>>
ScanResults ==
    UNION {[keys -> Contents] : keys \in (SUBSET LKeys) \ {{}}}
EnginePressures ==
    {[raw_pressure |-> 10, pressure_bucket |-> 5],
     [raw_pressure |-> 90, pressure_bucket |-> 45]}

InjectCall(project_files) ==
    /\ InjectSess \in DOMAIN sessions
    /\ sessions' = [sessions EXCEPT
                       ![InjectSess] = _inject_project_files(@, project_files)]
    /\ call' = [op |-> "inject", files |-> project_files,
                ops |-> InjectOps(sessions[InjectSess], project_files)]
    /\ UNCHANGED <<session_cache, session_locks, locks, mtime_cache,
                   content_cache, fs, task, server, lru_touch, scan_touch,
                   rescans, get_log>>

BoostCall(boost_files) ==
    /\ InjectSess \in DOMAIN sessions
    /\ sessions' = [sessions EXCEPT ![InjectSess] = ApplyBoost(@, boost_files)]
    /\ call' = [op |-> "boost", ids |-> boost_files]
    /\ UNCHANGED <<session_cache, session_locks, locks, mtime_cache,
                   content_cache, fs, task, server, lru_touch, scan_touch,
                   rescans, get_log>>

\* The injection and the boost of one query, as _handle_query runs them
\* under the lock, before the turn.
QueryCall(project_files, boost_files) ==
    /\ InjectSess \in DOMAIN sessions
    /\ sessions' = [sessions EXCEPT
                       ![InjectSess] =
                           ApplyBoost(IF project_files # EmptyMap
                                      THEN _inject_project_files(@, project_files)
                                      ELSE @,
                                      boost_files)]
    /\ call' = [op |-> "query", files |-> project_files, ids |-> boost_files,
                added |-> DOMAIN project_files \ DOMAIN sessions[InjectSess]]
    /\ UNCHANGED <<session_cache, session_locks, locks, mtime_cache,
                   content_cache, fs, task, server, lru_touch, scan_touch,
                   rescans, get_log>>

TurnCall(key, pressure) ==
    /\ InjectSess \in DOMAIN sessions
    /\ key \in DOMAIN sessions[InjectSess]
    /\ sessions' = [sessions EXCEPT
                       ![InjectSess][key] =
                           [@ EXCEPT !.raw_pressure = pressure.raw_pressure,
                                     !.pressure_bucket = pressure.pressure_bucket]]
    /\ call' = [op |-> "turn"]
    /\ UNCHANGED <<session_cache, session_locks, locks, mtime_cache,
                   content_cache, fs, task, server, lru_touch, scan_touch,
                   rescans, get_log>>

\* The session is constructed by the first get for its key.
FirstGet ==
    /\ InjectSess \notin DOMAIN sessions
    /\ \E gs \in {_get_session(session_cache, session_locks, lru_touch,
                               InjectKey, InjectSess, TRUE)} :
          /\ session_cache' = gs.cache
          /\ session_locks' = gs.reg
          /\ lru_touch' = gs.touch
    /\ sessions' = (InjectSess :> EmptyMap) @@ sessions
    /\ call' = [op |-> "get"]
    /\ UNCHANGED <<locks, mtime_cache, content_cache, fs, task, server,
                   scan_touch, rescans, get_log>>

NextInject ==
    \/ FirstGet
    \/ \E project_files \in ScanResults : InjectCall(project_files)
    \/ \E boost_files \in SUBSET BoostIds : BoostCall(boost_files)
    \/ \E project_files \in ScanResults \cup {EmptyMap},
          boost_files \in (SUBSET BoostIds) \ {{}} :
          QueryCall(project_files, boost_files)
    \/ \E key \in LKeys, pressure \in EnginePressures : TurnCall(key, pressure)

SpecInject == Init /\ [][NextInject]_vars

(***************************************************************************)
(* SpecLRU: _get_session called directly, for any sequence of keys.  The   *)
(* n-th handle constructed for a key is <<key, n>>.                        *)
(***************************************************************************)
GetSessionCall(key, ctor_ok) ==
    /\ get_log.calls < MaxGets
    /\ \E gs \in {_get_session(session_cache, session_locks, lru_touch, key,
                               <<key, get_log.made + 1>>, ctor_ok)} :
          /\ session_cache' = gs.cache
          /\ session_locks' = gs.reg
          /\ lru_touch' = gs.touch
          /\ sessions' = [h \in {gs.cache[i].v : i \in 1..Len(gs.cache)} |->
                             IF h \in DOMAIN sessions THEN sessions[h] ELSE EmptyMap]
          /\ get_log' = [calls |-> get_log.calls + 1,
                         made |-> IF gs.raised \/ DictHas(session_cache, key)
                                  THEN get_log.made ELSE get_log.made + 1,
                         key |-> key, sess |-> gs.sess,
                         hit |-> DictHas(session_cache, key),
                         raised |-> gs.raised]
    /\ UNCHANGED <<locks, mtime_cache, content_cache, fs, task, server,
                   scan_touch, rescans, call>>

NextLRU == \E key \in AllKeys, ctor_ok \in BOOLEAN : GetSessionCall(key, ctor_ok)

SpecLRU == Init /\ [][NextLRU]_vars

(***************************************************************************)
(* SpecEvict: _get_lock and _get_session called directly, for any sequence *)
(* of keys: the two registries side by side.  The registries hold the      *)
(* objects named <<key, 0>>.                                               *)
(***************************************************************************)
GetLockCall(key) ==
    /\ session_locks' = _get_lock(session_locks, key, <<key, 0>>)
    /\ locks' = IF session_locks[key] = NoLock
                THEN (<<key, 0>> :> FreeLock) @@ locks ELSE locks
    /\ call' = [op |-> "_get_lock", key |-> key]
    /\ UNCHANGED <<session_cache, sessions, mtime_cache, content_cache, fs,
                   task, server, lru_touch, scan_touch, rescans, get_log>>

EvictGetCall(key, ctor_ok) ==
    /\ \E gs \in {_get_session(session_cache, session_locks, lru_touch, key,
                               <<key, 0>>, ctor_ok)} :
          /\ session_cache' = gs.cache
          /\ session_locks' = gs.reg
          /\ lru_touch' = gs.touch
          /\ sessions' = [h \in {gs.cache[i].v : i \in 1..Len(gs.cache)} |->
                             IF h \in DOMAIN sessions THEN sessions[h] ELSE EmptyMap]
          /\ call' = [op |-> "_get_session", key |-> key,
                      evicted |-> DictKeys(session_cache) \ DictKeys(gs.cache),
                      locked |-> {k \in AllKeys : session_locks[k] # NoLock}]
    /\ UNCHANGED <<locks, mtime_cache, content_cache, fs, task, server,
                   scan_touch, rescans, get_log>>

NextEvict ==
    \/ \E key \in AllKeys : GetLockCall(key)
    \/ \E key \in AllKeys, ctor_ok \in BOOLEAN : EvictGetCall(key, ctor_ok)

SpecEvict == Init /\ [][NextEvict]_vars

\* A task with its lock taken, suspended in an engine call of the locked section.
InSection(t) == task[t].pc \in {"turn", "save"}

\* C1: in every reachable state at most one query task per cache key is
\* inside the locked section (between the lock's acquisition and its release).
C1_MutualExclusionPerKey ==
    \A t, u \in Tasks :
        t # u /\ InSection(t) /\ InSection(u) => task[t].key # task[u].key

\* C2: no two query tasks are at the same time between the start of turn()
\* and the end of save() on the same session handle.
C2_MutualExclusionPerHandle ==
    \A t, u \in Tasks :
        t # u /\ InSection(t) /\ InSection(u) => task[t].sess # task[u].sess

\* C3: after every call of _get_session the session registry holds at most
\* _MAX_CACHED_SESSIONS entries.
C3_RegistryBound == Len(session_cache) <= MAX_CACHED_SESSIONS

\* The registry is full after a key was evicted from it.
C3_Witness ==
    /\ Len(session_cache) = MAX_CACHED_SESSIONS
    /\ Len(lru_touch) > MAX_CACHED_SESSIONS

ResidentKeys(cache) == [i \in 1..Len(cache) |-> cache[i].k]
LastN(seq, n) == SubSeq(seq, Max(1, Len(seq) - n + 1), Len(seq))
Without(seq, x) == SelectSeq(seq, LAMBDA y : y # x)
TouchPos(k) == IndexOf(lru_touch, k)

\* What one returning call of _get_session for key does to the registry.
C4_Get(key) ==
    IF DictHas(session_cache, key)
    THEN \* a hit: the same handle, nothing constructed, the key last
         /\ get_log'.sess = DictGet(session_cache, key, NoSess)
         /\ get_log'.made = get_log.made
         /\ ResidentKeys(session_cache') = Without(ResidentKeys(session_cache), key) \o <<key>>
         /\ \A k \in DictKeys(session_cache) :
                DictGet(session_cache', k, NoSess) = DictGet(session_cache, k, NoSess)
    ELSE \* a miss: a new handle, the key last, the oldest-touched resident evicted
         /\ get_log'.made = get_log.made + 1
         /\ get_log'.sess \notin {session_cache[i].v : i \in 1..Len(session_cache)}
         /\ DictGet(session_cache', key, NoSess) = get_log'.sess
         /\ session_cache'[Len(session_cache')].k = key
         /\ LET evicted == DictKeys(session_cache) \ DictKeys(session_cache')
            IN IF Len(session_cache) < MAX_CACHED_SESSIONS THEN evicted = {}
               ELSE \E k \in DictKeys(session_cache) :
                       /\ evicted = {k}
                       /\ \A r \in DictKeys(session_cache) : TouchPos(k) <= TouchPos(r)
         /\ \A k \in DictKeys(session_cache') \ {key} :
                DictGet(session_cache', k, NoSess) = DictGet(session_cache, k, NoSess)

\* C4: the session registry is strict LRU.  A get that hits moves the key to
\* most-recently-used and returns the resident handle without constructing
\* one; a get that misses inserts the key as most-recently-used and, at
\* capacity, evicts exactly the resident key whose last touch is oldest; so
\* the resident keys are always the (up to) 3 most recently touched keys, in
\* the order of their last touch.
C4_StrictLRU ==
    /\ [](ResidentKeys(session_cache) = LastN(lru_touch, MAX_CACHED_SESSIONS))
    /\ [][\A key \in AllKeys :
              /\ get_log'.calls = get_log.calls + 1
              /\ get_log'.key = key
              /\ ~get_log'.raised
              => C4_Get(key)]_vars

\* A get has hit a resident key after another key was evicted.
C4_Witness ==
    /\ get_log.hit
    /\ Len(lru_touch) > MAX_CACHED_SESSIONS
    /\ Len(session_cache) = MAX_CACHED_SESSIONS
    /\ session_cache[1].k # lru_touch[1]

\* C8: a query whose session lookup or construction, injection, boost, turn()
\* or save() raised is answered with one error response that carries the
\* request's id and the exception's message, and its lock is released: no
\* lock is left taken without a query in its locked section.
C8_QueryFailureAnswered ==
    /\ \A t \in Tasks :
           task[t].pc = "closed" /\ task[t].exc # ""
               => task[t].out = <<[id |-> task[t].rid, type |-> "error",
                                   msg |-> task[t].exc, timing |-> TRUE]>>
    /\ \A l \in DOMAIN locks :
           locks[l].locked => \E u \in Tasks : InSection(u) /\ task[u].lock = l

\* A query's save() has raised and been answered, and a later query is in the
\* locked section of the only lock there is, the one the failed query held.
C8_Witness ==
    /\ \E t, u \in Tasks :
          /\ task[t].pc = "closed" /\ task[t].exc = "E_save"
          /\ InSection(u) /\ task[u].rid # task[t].rid
    /\ Cardinality(DOMAIN locks) = 1

SeqSet(seq) == {seq[i] : i \in 1..Len(seq)}

\* C5: after any sequence of scans the project-scan cache, the mtime map and
\* the content map alike, holds at most 10 roots, the 10 most recently
\* scanned ones.
C5_ScanCacheBound ==
    /\ Len(mtime_cache) <= MAX_CACHE_PROJECTS
    /\ Len(content_cache) <= MAX_CACHE_PROJECTS
    /\ DictKeys(mtime_cache) = SeqSet(LastN(scan_touch, MAX_CACHE_PROJECTS))
    /\ DictKeys(content_cache) = SeqSet(LastN(scan_touch, MAX_CACHE_PROJECTS))

\* C6: a re-scan of a root the project-scan cache holds moves the root to
\* most-recently-used and leaves the cache's size as it is, and the scan of
\* a new root at capacity evicts the root whose last scan is oldest.
C6_RescanIsMostRecent ==
    [][/\ rescans' = rescans + 1 =>
            /\ Len(mtime_cache') = Len(mtime_cache)
            /\ Len(content_cache') = Len(content_cache)
            /\ mtime_cache'[Len(mtime_cache')].k = scan_touch'[Len(scan_touch')]
            /\ content_cache'[Len(content_cache')].k = scan_touch'[Len(scan_touch')]
       /\ (/\ Len(scan_touch') > Len(scan_touch)
           /\ Len(mtime_cache) = MAX_CACHE_PROJECTS) =>
             DictKeys(mtime_cache) \ DictKeys(mtime_cache') = {scan_touch[1]}
      ]_vars

\* C9: every response written for a request line that parsed to an object
\* with an id carries that id, whatever the request's type and payload.
C9_ResponseEchoesId ==
    \A t \in Tasks :
        task[t].rid \notin {NoField, JsonNull} =>
            \A i \in 1..Len(task[t].out) : task[t].out[i].id = task[t].rid

\* C10: the handler writes at most one response line on a connection.
C10_AtMostOneResponse == \A t \in Tasks : Len(task[t].out) <= 1

\* The connection of a shutdown request, closed after its one response line
\* (the routed response, with its timing) was written and drained.
ShutdownAnswered(tk) ==
    /\ tk.pc = "closed" /\ tk.rtype = "shutdown"
    /\ Len(tk.out) = 1 /\ tk.out[1].timing

\* C11: the shutdown is signalled only in the step in which the shutdown
\* request's response line has been written and its drain has returned, and
\* once it is signalled the listener accepts no connection.
C11_ShutdownAfterResponse ==
    /\ [](server.shutdown_set => ~server.listening)
    /\ [][server'.shutdown_set /\ ~server.shutdown_set
            => \E t \in Tasks : ShutdownAnswered(task'[t])]_vars

\* The shutdown was signalled by an answered shutdown request with id i1.
C11_Witness ==
    /\ server.shutdown_set /\ ~server.listening
    /\ \E t \in Tasks : ShutdownAnswered(task[t]) /\ task[t].rid = "i1"

Pressure(f) == [raw_pressure |-> f.raw_pressure, pressure_bucket |-> f.pressure_bucket]
Bootstrap == [raw_pressure |-> BOOTSTRAP_PRESSURE, pressure_bucket |-> BOOTSTRAP_BUCKET]

\* C12: an injection pass sets the bootstrap pressure (0.45, bucket 22) on
\* exactly the keys it adds to the session's file table, and leaves the
\* pressure and the bucket of every key the table already held as they were,
\* whether the file's content is unchanged or changed; so each key is
\* bootstrapped in one pass only, the one that adds it.
C12_BootstrapOnce ==
    [][call'.op = "inject"
          => LET old == sessions[InjectSess]
                 new == sessions'[InjectSess]
             IN /\ \A key \in DOMAIN old : Pressure(new[key]) = Pressure(old[key])
                /\ \A key \in DOMAIN new \ DOMAIN old : Pressure(new[key]) = Bootstrap
                /\ DOMAIN new = DOMAIN old \cup DOMAIN call'.files]_vars

\* A pass has changed the content of a file whose pressure is not the
\* bootstrap pressure, while adding another file.
C12_Witness ==
    /\ call.op = "inject"
    /\ \E key \in DOMAIN call.files :
          /\ Pressure(sessions[InjectSess][key]) # Bootstrap
          /\ \E o \in 1..Len(call.ops) :
                call.ops[o] = [op |-> "update_file", key |-> key]
    /\ \E o \in 1..Len(call.ops) : call.ops[o].op = "bootstrap"

IsWrite(o) == o.op \in {"add_file", "update_file"}

\* C15: one injection pass rebuilds the graph once when it added a file or
\* changed the content of one, and not at all otherwise; the rebuild comes
\* after every add and update of the pass and before every bootstrap write.
C15_RebuildOncePerPass ==
    call.op = "inject" =>
        LET ops == call.ops
            rebuilds == {o \in 1..Len(ops) : ops[o].op = "_rebuild_dag"}
            writes == {o \in 1..Len(ops) : IsWrite(ops[o])}
            boots == {o \in 1..Len(ops) : ops[o].op = "bootstrap"}
        IN /\ Cardinality(rebuilds) = IF writes # {} THEN 1 ELSE 0
           /\ \A r \in rebuilds :
                 /\ \A w \in writes : w < r
                 /\ \A b \in boots : r < b

\* A pass has added one file and changed another: two writes, one rebuild.
C15_Witness ==
    /\ call.op = "inject"
    /\ \E o \in 1..Len(call.ops) : call.ops[o].op = "add_file"
    /\ \E o \in 1..Len(call.ops) : call.ops[o].op = "update_file"
    /\ \E o \in 1..Len(call.ops) : call.ops[o].op = "_rebuild_dag"

Boost == [raw_pressure |-> BOOST_PRESSURE, pressure_bucket |-> BOOST_BUCKET]

\* C16: the boost raises a file's pressure and bucket to no less than 0.6
\* and 30 and never lowers them: max(old, 0.6) and max(old, 30).  A file the
\* same request has just added and that is boosted ends at 0.6 and 30.  A
\* boost id whose key is not in the file table adds no file, and a file that
\* is not boosted is left as it was.
C16_BoostIsFloor ==
    [][call'.op \in {"boost", "query"}
          => LET old == sessions[InjectSess]
                 new == sessions'[InjectSess]
                 keys == {BoostKey(bf) : bf \in call'.ids}
                 fresh == IF call'.op = "query" THEN call'.added ELSE {}
             IN /\ DOMAIN new = DOMAIN old \cup fresh
                /\ \A key \in DOMAIN old \cap keys :
                      /\ new[key].raw_pressure
                            = Max(old[key].raw_pressure, BOOST_PRESSURE)
                      /\ new[key].pressure_bucket
                            = Max(old[key].pressure_bucket, BOOST_BUCKET)
                /\ \A key \in fresh \cap keys : Pressure(new[key]) = Boost
                /\ \A key \in DOMAIN old \ keys :
                      Pressure(new[key]) = Pressure(old[key])]_vars

\* One request has added and boosted a file, boosted a file whose pressure
\* was above the floor, and named a file the table does not hold.
C16_Witness ==
    /\ call.op = "query"
    /\ \E key \in call.added :
          /\ key \in {BoostKey(bf) : bf \in call.ids}
          /\ Pressure(sessions[InjectSess][key]) = Boost
    /\ \E key \in DOMAIN sessions[InjectSess] \ call.added :
          /\ key \in {BoostKey(bf) : bf \in call.ids}
          /\ sessions[InjectSess][key].raw_pressure > BOOST_PRESSURE
    /\ \E bf \in call.ids : BoostKey(bf) \notin DOMAIN sessions[InjectSess]

\* The files a scan visits: present, matched by the config, and statable.
Visited(dir, config) ==
    {fname \in DOMAIN dir :
        /\ fname \in config.patterns /\ fname \notin config.exclude
        /\ dir[fname].perm # "nostat"}
RescanDir == IF RescanRoot \in DOMAIN fs THEN fs[RescanRoot] ELSE EmptyMap

\* C13: a scan returns a visited file's cached content without opening the
\* file when the previous scan of the root recorded the same modification
\* time and cached a content for the key, whatever the file holds now; when
\* the modification time differs or no content is cached for the key, the
\* scan opens the file and, if the read succeeds, returns what it holds.
C13_ScanIncrementality ==
    [][call'.op = "scan"
          => LET prev_mtimes == DictGet(mtime_cache, RescanRoot, EmptyMap)
                 prev_contents == DictGet(content_cache, RescanRoot, EmptyMap)
             IN \A fname \in Visited(RescanDir, call'.config) :
                   LET key == LKey(fname)
                       file == RescanDir[fname]
                   IN IF /\ key \in DOMAIN prev_mtimes
                         /\ prev_mtimes[key] = file.mtime
                         /\ key \in DOMAIN prev_contents
                      THEN /\ key \notin call'.reads
                           /\ call'.result[key] = prev_contents[key]
                      ELSE /\ key \in call'.reads
                           /\ file.perm = "ok" =>
                                 call'.result[key] = file.content]_vars

\* A scan has returned a content the file no longer holds, without opening
\* the file.
C13_Witness ==
    /\ call.op = "scan"
    /\ LKey("a.md") \notin call.reads
    /\ LKey("a.md") \in DOMAIN call.result
    /\ "a.md" \in DOMAIN RescanDir
    /\ call.result[LKey("a.md")] # RescanDir["a.md"].content

\* C17: a scan replaces the root's entry in both caches by the maps the scan
\* computed: the content map is the returned result, both maps hold only keys
\* of files the scan visited, so keys of files that are gone or no longer
\* matched are in neither; after a scan of an empty or unlistable directory
\* the root is in both caches with empty maps and the result is empty.
C17_ScanReplacesEntry ==
    [][call'.op = "scan"
          => LET mt == DictGet(mtime_cache', RescanRoot, EmptyMap)
                 cc == DictGet(content_cache', RescanRoot, EmptyMap)
                 keys == {LKey(fname) : fname \in Visited(RescanDir, call'.config)}
             IN /\ DictHas(mtime_cache', RescanRoot)
                /\ DictHas(content_cache', RescanRoot)
                /\ cc = call'.result
                /\ DOMAIN mt = keys
                /\ DOMAIN cc \subseteq keys
                /\ \A fname \in Visited(RescanDir, call'.config) :
                      mt[LKey(fname)] = RescanDir[fname].mtime
                /\ RescanDir = EmptyMap =>
                      mt = EmptyMap /\ cc = EmptyMap /\ call'.result = EmptyMap]_vars

\* A scan of the removed directory has emptied an entry that held a file.
C17_Witness ==
    /\ call.op = "scan"
    /\ RescanRoot \notin DOMAIN fs
    /\ DictHas(mtime_cache, RescanRoot)
    /\ DictGet(mtime_cache, RescanRoot, EmptyMap) = EmptyMap
    /\ DictGet(content_cache, RescanRoot, EmptyMap) = EmptyMap
    /\ call.result = EmptyMap
    /\ call.prev # {}

\* C14: a get of the session registry that evicts a key removes the lock
\* registry's entry of that key in the same step and leaves the entry of
\* every other key as it was; a get that evicts nothing leaves the lock
\* registry as it was.
C14_EvictionPopsItsLock ==
    [][call'.op = "_get_session"
          => \A k \in AllKeys :
                session_locks'[k] = IF k \in call'.evicted THEN NoLock
                                    ELSE session_locks[k]]_vars

\* A get has evicted a key that had a lock entry, and the lock entries of two
\* other keys are still there.
C14_Witness ==
    /\ call.op = "_get_session"
    /\ \E k \in call.evicted : k \in call.locked /\ session_locks[k] = NoLock
    /\ Cardinality({k \in AllKeys : session_locks[k] # NoLock}) >= 2

Line(resp) == [id |-> resp.id, type |-> resp.type, msg |-> resp.msg]

\* C18: the router answers a request without an id with an error response
\* whose id is "unknown", a request with an id and no type with an error
\* response with that id, a shutdown request with an empty result response,
\* and a request of any type other than ping, query, update and shutdown with
\* an error response that has the request's id and names the type; on a
\* transport that does not fail, the first line a connection writes for such
\* a request is that response.
C18_RouterResponses ==
    \A t \in Tasks :
        LET tk == task[t]
            first == Line(tk.out[1])
        IN tk.pc = "closed" /\ tk.out # <<>> =>
              /\ tk.rid \in {NoField, JsonNull} /\ tk.rtype # NoField =>
                    first = Line(_error_response("unknown", "Missing 'id' field"))
              /\ tk.rid \in {"i1", "i2"} /\ tk.rtype \in {NoField, JsonNull} =>
                    first = Line(_error_response(tk.rid, "Missing 'type' field"))
              /\ tk.rid \in {"i1", "i2"} /\ tk.rtype = "shutdown" =>
                    first = Line(ResultResponse(tk.rid, "result"))
              /\ tk.rid \in {"i1", "i2"}
                 /\ tk.rtype \notin {NoField, JsonNull, "ping", "query", "update",
                                     "shutdown"} =>
                    first = Line(_error_response(tk.rid,
                                     "Unknown request type: " \o tk.rtype))

C20_InFlightFinishes ==
    \A t \in Tasks :
        task[t].pc = "closed" /\ task[t].rtype = "query" /\ task[t].rid \in {"i1", "i2"}
            => Len(task[t].out) = 1

\* The session registry with its recency order, the lock registry and the
\* file tables of the sessions.
SessionState == <<session_cache, lru_touch, session_locks, locks, sessions>>
ScanCacheState == <<mtime_cache, content_cache, scan_touch>>
\* A connection that was answered by the ping or the update handler.
Echoed(tk) ==
    /\ tk.pc = "closed" /\ tk.rtype \in {"ping", "update"}
    /\ Len(tk.out) = 1 /\ tk.out[1].type \in {"pong", "result"}

\* C21: a call of _scan_project_files leaves the session registry and its
\* recency order, the lock registry and every session's file table as they
\* were; a ping request and an update request leave these and the scan cache
\* as they were.
C21_FrameOfNonMutating ==
    /\ [][task' = task => SessionState' = SessionState]_vars
    /\ [][/\ task' # task
          /\ \A t \in Tasks : ~Open(task[t])
          /\ \E t \in Tasks : Echoed(task'[t])
          => SessionState' = SessionState /\ ScanCacheState' = ScanCacheState]_vars

\* A scan was called directly and a ping was answered while two sessions
\* with files and their locks were registered.
C21_Witness ==
    /\ call.op = "scan"
    /\ \E t \in Tasks : Echoed(task[t]) /\ task[t].rtype = "ping"
    /\ Len(session_cache) >= 2
    /\ \E h \in DOMAIN sessions : sessions[h] # EmptyMap
    /\ \E k \in AllKeys : session_locks[k] # NoLock
    /\ DictHas(mtime_cache, RescanRoot)

\* The step signals the shutdown.
ShutdownSignalled == server'.shutdown_set /\ ~server.shutdown_set

\* The statement of C22 as given: a protocol request shuts the server down
\* only if it was answered with a result response.
C22_ShutdownOnlyOnSuccess ==
    [][ShutdownSignalled
          => \E t \in Tasks : /\ ShutdownAnswered(task'[t])
                              /\ task'[t].out[1].type = "result"]_vars

\* C22: a protocol request shuts the server down only if its type is
\* shutdown and the router's response to it was written and drained; that
\* response is the result response when the request has an id and the
\* "Missing 'id' field" error response when it has none: the connection
\* handler looks at the request's type, not at the response.
C22_ShutdownByRequestType ==
    [][ShutdownSignalled
          => \E t \in Tasks :
                /\ ShutdownAnswered(task'[t])
                /\ Line(task'[t].out[1])
                      = IF task'[t].rid \in {NoField, JsonNull}
                        THEN Line(_error_response("unknown", "Missing 'id' field"))
                        ELSE Line(ResultResponse(task'[t].rid, "result"))]_vars

\* The server was shut down by a shutdown request without an id, which was
\* answered with an error response.
C22_Witness ==
    /\ server.shutdown_set
    /\ \E t \in Tasks :
          /\ ShutdownAnswered(task[t])
          /\ task[t].rid = NoField
          /\ task[t].out[1].type = "error"

LockKeys == {k \in AllKeys : session_locks[k] # NoLock}
LocksResident == LockKeys \subseteq DictKeys(session_cache)
\* The step ends a query whose session construction raised:
\* the connection is closed with the handler's error response, and no other
\* connection has moved.
ConstructionFailed ==
    /\ \E t \in Tasks : task'[t].pc = "closed" /\ task'[t].exc = "E_construct"
    /\ {task'[u] : u \in {v \in Tasks : Open(task'[v])}}
          \subseteq {task[u] : u \in {v \in Tasks : Open(task[v])}}

Waiting(id) == \E t \in Tasks : task[t].rid = id /\ task[t].pc = "waiting"
Answered(id) ==
    \E t \in Tasks :
        /\ task[t].rid = id /\ task[t].pc = "closed"
        /\ Len(task[t].out) = 1 /\ task[t].out[1].id = id

====
